---- MODULE Spec2Model ----
(***************************************************************************)
(* Model of the cosmwasm-distribute contract (src/src/contract.rs).        *)
(*                                                                         *)
(* The contract keeps no state of its own between calls: one execute call  *)
(* takes a MessageInfo and an ExecuteMsg and returns Result<Response,      *)
(* ContractError>.  The model holds the call being executed and the value  *)
(* it returned.  Uint128 is modelled with a scaled-down maximum (MaxUint); *)
(* its `+` aborts the call on overflow, as cosmwasm_std::Uint128 does.     *)
(***************************************************************************)
EXTENDS Integers, Sequences, FiniteSets

VARIABLES call, result

vars == <<call, result>>

----------------------------------------------------------------------------
(* Bounds of the model *)

\* Stand-in for u128::MAX, the largest value a Uint128 holds.
MaxUint == 1
\* Longest recipient list of a request.
MaxRecipients == 3
\* Largest number of coins attached to a call.
MaxFunds == 2

----------------------------------------------------------------------------
(* Data *)

\* Addresses the host's address validator accepts.
ValidAddrs == {"addr1", "addr2"}
\* Every string that can appear as a recipient address.
Addrs == ValidAddrs \cup {"BAD"}
\* Native denominations a coin attached to a call can have.
Denoms == {"uusd", "uluna"}
\* Denominations a DistributeNative message declares.
DeclaredDenoms == {"uusd"}
\* Addresses of cw20 token contracts (callers of the Receive hook).
Tokens == {"tokenX", "tokenY"}

Uint128 == 0..MaxUint

SeqsUpTo(S, n) == UNION {[1..k -> S] : k \in 0..n}

\* msg.rs: struct Recipient { recipient: String, amount: Uint128 }
Recipient == [recipient : Addrs, amount : Uint128]

\* cosmwasm_std::Coin as it appears in info.funds
Coin == [denom : Denoms, amount : Uint128]

\* error.rs: enum ContractError
MismatchedAssetType == [kind |-> "MismatchedAssetType"]
MismatchedAssetAmount == [kind |-> "MismatchedAssetAmount"]
DuplicateRecipient == [kind |-> "DuplicateRecipient"]
Generic(text) == [kind |-> "Generic", text |-> text]
Std(e) == [kind |-> "Std", source |-> e]

\* Result<Response, ContractError>, and the abort of the call by a panic.
Ok(msgs) == [tag |-> "Ok", messages |-> msgs]
Err(e) == [tag |-> "Err", error |-> e]
Panic == [tag |-> "Panic"]

----------------------------------------------------------------------------
(* Collaborators *)

\* deps.api.addr_validate(&recipient.recipient)
addr_validate(addr) ==
    IF addr \in ValidAddrs
    THEN [ok |-> TRUE]
    ELSE [ok |-> FALSE, error |-> [kind |-> "GenericErr", msg |-> addr]]

\* A plausible slip: the addition wraps modulo 2^128.
Uint128AddWrapping(a, b) == [ok |-> TRUE, value |-> (a + b) % (MaxUint + 1)]

\* `sum + recipient.amount` on Uint128: panics on overflow.
Uint128Add(a, b) ==
    IF a + b > MaxUint
    THEN [ok |-> FALSE, value |-> 0]
    ELSE [ok |-> TRUE, value |-> a + b]

\* recipients.iter().fold(Uint128::zero(), |sum, recipient| sum + recipient.amount)
RECURSIVE FoldSum(_, _, _)
FoldSum(recipients, i, sum) ==
    IF i > Len(recipients)
    THEN [ok |-> TRUE, value |-> sum]
    ELSE LET next == Uint128Add(sum, recipients[i].amount)
         IN  IF next.ok THEN FoldSum(recipients, i + 1, next.value) ELSE next

sum_recipient_amount(recipients) == FoldSum(recipients, 1, 0)

\* slice.contains(&x)
Contains(slice, x) == \E k \in 1..Len(slice) : slice[k] = x

\* A plausible slip: only neighbouring entries are compared.
HasDuplicateAdjacent(recipients) ==
    \E i \in 1..(Len(recipients) - 1) : recipients[i + 1] = recipients[i]

\* (1..recipients.len()).any(|i| recipients[i..].contains(&recipients[i - 1]))
HasDuplicate(recipients) ==
    \E i \in 1..(Len(recipients) - 1) :
        Contains(SubSeq(recipients, i + 1, Len(recipients)), recipients[i])

----------------------------------------------------------------------------
(* Serialisation of messages *)

\* to_binary(&msg): the bytes that encode msg.
to_binary(m) == [encoded |-> m]

\* Bytes that decode to no Cw20HookMsg variant.
UndecodableBinary == to_binary([variant |-> "Unsupported"])

\* from_binary::<Cw20HookMsg>(&cw20_msg.msg)
from_binary(bin) ==
    IF bin.encoded.variant = "DistributeCw20"
    THEN [ok |-> TRUE, value |-> bin.encoded]
    ELSE [ok |-> FALSE]

\* msg.rs: Cw20HookMsg::DistributeCw20 { asset_token, recipients }
DistributeCw20(asset_token, recipients) ==
    [variant |-> "DistributeCw20", asset_token |-> asset_token,
     recipients |-> recipients]

\* cosmwasm_std::coins(amount, denom): a vector of one coin
coins(amount, denom) == <<[denom |-> denom, amount |-> amount]>>

\* SubMsg::new(CosmosMsg::Bank(BankMsg::Send { to_address, amount }))
BankSend(recipient, denom) ==
    [kind |-> "BankSend", to_address |-> recipient.recipient,
     amount |-> coins(recipient.amount, denom)]

\* SubMsg::new(WasmMsg::Execute { contract_addr, funds: vec![], msg })
WasmExecuteTransfer(recipient, asset_token) ==
    [kind |-> "WasmExecute", contract_addr |-> asset_token, funds |-> <<>>,
     msg |-> to_binary([variant |-> "Transfer",
                        recipient |-> recipient.recipient,
                        amount |-> recipient.amount])]

----------------------------------------------------------------------------
(* try_distribute_native *)

\* A plausible slip: the amounts of the attached coins are added up.
RECURSIVE ScanFundsAdding(_, _, _, _)
ScanFundsAdding(funds, denom, i, amount) ==
    IF i > Len(funds)
    THEN [ok |-> TRUE, amount |-> amount]
    ELSE IF funds[i].denom # denom
         THEN [ok |-> FALSE, amount |-> 0]
         ELSE ScanFundsAdding(funds, denom, i + 1, amount + funds[i].amount)

deposited_amount_adding(funds, denom) == ScanFundsAdding(funds, denom, 1, 0)

\* A plausible slip: coins of another denom are skipped instead of rejected.
RECURSIVE ScanFundsSkipping(_, _, _, _)
ScanFundsSkipping(funds, denom, i, amount) ==
    IF i > Len(funds)
    THEN [ok |-> TRUE, amount |-> amount]
    ELSE IF funds[i].denom # denom
         THEN ScanFundsSkipping(funds, denom, i + 1, amount)
         ELSE ScanFundsSkipping(funds, denom, i + 1, funds[i].amount)

deposited_amount_skipping(funds, denom) == ScanFundsSkipping(funds, denom, 1, 0)

\* for coin in info.funds.iter() { if coin.denom != denom { return Err } else { amount = coin.amount } }
RECURSIVE ScanFunds(_, _, _, _)
ScanFunds(funds, denom, i, amount) ==
    IF i > Len(funds)
    THEN [ok |-> TRUE, amount |-> amount]
    ELSE IF funds[i].denom # denom
         THEN [ok |-> FALSE, amount |-> 0]
         ELSE ScanFunds(funds, denom, i + 1, funds[i].amount)

\* let mut amount = Uint128::zero(); followed by the scan of info.funds
deposited_amount(funds, denom) == ScanFunds(funds, denom, 1, 0)

\* A plausible slip: a recipient whose address is rejected is skipped.
RECURSIVE BuildNativeSkipping(_, _, _, _)
BuildNativeSkipping(recipients, denom, i, transfer_msgs) ==
    IF i > Len(recipients)
    THEN Ok(transfer_msgs)
    ELSE IF ~addr_validate(recipients[i].recipient).ok
         THEN BuildNativeSkipping(recipients, denom, i + 1, transfer_msgs)
         ELSE BuildNativeSkipping(recipients, denom, i + 1,
                  Append(transfer_msgs, BankSend(recipients[i], denom)))

native_transfer_msgs_skipping(recipients, denom) ==
    BuildNativeSkipping(recipients, denom, 1, <<>>)

\* A plausible slip: each message is put in front of the earlier ones.
RECURSIVE BuildNativeReversed(_, _, _, _)
BuildNativeReversed(recipients, denom, i, transfer_msgs) ==
    IF i > Len(recipients)
    THEN Ok(transfer_msgs)
    ELSE LET v == addr_validate(recipients[i].recipient)
         IN  IF ~v.ok
             THEN Err(Std(v.error))
             ELSE BuildNativeReversed(recipients, denom, i + 1,
                      <<BankSend(recipients[i], denom)>> \o transfer_msgs)

native_transfer_msgs_reversed(recipients, denom) ==
    BuildNativeReversed(recipients, denom, 1, <<>>)

\* for recipient in recipients.iter() { addr_validate(..)?; transfer_msgs.push(..) }
RECURSIVE BuildNative(_, _, _, _)
BuildNative(recipients, denom, i, transfer_msgs) ==
    IF i > Len(recipients)
    THEN Ok(transfer_msgs)
    ELSE LET v == addr_validate(recipients[i].recipient)
         IN  IF ~v.ok
             THEN Err(Std(v.error))
             ELSE BuildNative(recipients, denom, i + 1,
                      Append(transfer_msgs, BankSend(recipients[i], denom)))

\* let mut transfer_msgs = vec![]; the loop; Ok(Response::new().add_submessages(transfer_msgs))
native_transfer_msgs(recipients, denom) == BuildNative(recipients, denom, 1, <<>>)

\* A plausible slip: a deposit larger than the recipients' sum is accepted.
try_distribute_native_at_least(info, denom, recipients) ==
    LET scan == deposited_amount(info.funds, denom)
        sum == sum_recipient_amount(recipients)
    IN  IF ~scan.ok THEN Err(MismatchedAssetType)
        ELSE IF ~sum.ok THEN Panic
        ELSE IF scan.amount < sum.value THEN Err(MismatchedAssetAmount)
        ELSE IF HasDuplicate(recipients) THEN Err(DuplicateRecipient)
        ELSE native_transfer_msgs(recipients, denom)

try_distribute_native(info, denom, recipients) ==
    LET scan == deposited_amount(info.funds, denom)
        sum == sum_recipient_amount(recipients)
    IN  IF ~scan.ok THEN Err(MismatchedAssetType)
        ELSE IF ~sum.ok THEN Panic
        ELSE IF scan.amount # sum.value THEN Err(MismatchedAssetAmount)
        ELSE IF HasDuplicate(recipients) THEN Err(DuplicateRecipient)
        ELSE native_transfer_msgs(recipients, denom)

----------------------------------------------------------------------------
(* receive_cw20 and try_distribute_cw20 *)

\* for recipient in recipients.iter() { addr_validate(..)?; transfer_msgs.push(..) }
RECURSIVE BuildCw20(_, _, _, _)
BuildCw20(recipients, asset_token, i, transfer_msgs) ==
    IF i > Len(recipients)
    THEN Ok(transfer_msgs)
    ELSE LET v == addr_validate(recipients[i].recipient)
         IN  IF ~v.ok
             THEN Err(Std(v.error))
             ELSE BuildCw20(recipients, asset_token, i + 1,
                      Append(transfer_msgs,
                             WasmExecuteTransfer(recipients[i], asset_token)))

\* let mut transfer_msgs = vec![]; the loop; Ok(Response::new().add_submessages(transfer_msgs))
cw20_transfer_msgs(recipients, asset_token) ==
    BuildCw20(recipients, asset_token, 1, <<>>)

\* A plausible slip: the sum check is left out of the cw20 path.
try_distribute_cw20_no_sum_check(amount, asset_token, recipients) ==
    LET sum == sum_recipient_amount(recipients)
    IN  IF ~sum.ok THEN Panic
        ELSE IF HasDuplicate(recipients) THEN Err(DuplicateRecipient)
        ELSE cw20_transfer_msgs(recipients, asset_token)

\* A plausible slip: the duplicate check runs before the sum check.
try_distribute_cw20_dup_first(amount, asset_token, recipients) ==
    LET sum == sum_recipient_amount(recipients)
    IN  IF HasDuplicate(recipients) THEN Err(DuplicateRecipient)
        ELSE IF ~sum.ok THEN Panic
        ELSE IF amount # sum.value THEN Err(MismatchedAssetAmount)
        ELSE cw20_transfer_msgs(recipients, asset_token)

try_distribute_cw20(amount, asset_token, recipients) ==
    LET sum == sum_recipient_amount(recipients)
    IN  IF ~sum.ok THEN Panic
        ELSE IF amount # sum.value THEN Err(MismatchedAssetAmount)
        ELSE IF HasDuplicate(recipients) THEN Err(DuplicateRecipient)
        ELSE cw20_transfer_msgs(recipients, asset_token)

receive_cw20(info, cw20_msg) ==
    LET decoded == from_binary(cw20_msg.msg)
    IN  IF decoded.ok
        THEN IF info.sender # decoded.value.asset_token
             THEN Err(MismatchedAssetType)
             ELSE try_distribute_cw20(cw20_msg.amount, decoded.value.asset_token,
                                      decoded.value.recipients)
        ELSE Err(Generic("invalid cw20 hook message"))

----------------------------------------------------------------------------
(* execute *)

\* msg.rs: ExecuteMsg::DistributeNative { denom, recipients }
DistributeNative(denom, recipients) ==
    [variant |-> "DistributeNative", denom |-> denom, recipients |-> recipients]

\* msg.rs: ExecuteMsg::Receive(Cw20ReceiveMsg { sender, amount, msg })
Receive(sender, amount, bin) ==
    [variant |-> "Receive",
     cw20_msg |-> [sender |-> sender, amount |-> amount, msg |-> bin]]

\* cosmwasm_std::MessageInfo
MessageInfo(sender, funds) == [sender |-> sender, funds |-> funds]

execute(info, msg) ==
    IF msg.variant = "Receive"
    THEN receive_cw20(info, msg.cw20_msg)
    ELSE try_distribute_native(info, msg.denom, msg.recipients)

NoCall == [variant |-> "None"]
NoResult == [tag |-> "None"]

\* instantiate: the contract is deployed and no execute call has run.
Init ==
    /\ call = [info |-> MessageInfo("none", <<>>), msg |-> NoCall]
    /\ result = NoResult

\* One transaction carrying ExecuteMsg::DistributeNative.
ExecuteDistributeNative ==
    /\ result = NoResult
    /\ \E funds \in SeqsUpTo(Coin, MaxFunds), denom \in DeclaredDenoms,
          recipients \in SeqsUpTo(Recipient, MaxRecipients) :
          LET info == MessageInfo("user", funds)
              msg == DistributeNative(denom, recipients)
          IN  /\ call' = [info |-> info, msg |-> msg]
              /\ result' = execute(info, msg)

\* One transaction carrying ExecuteMsg::Receive, sent by a cw20 contract.
ExecuteReceive ==
    /\ result = NoResult
    /\ \E sender \in Tokens, amount \in Uint128,
          bin \in {to_binary(DistributeCw20(t, r)) :
                      t \in Tokens, r \in SeqsUpTo(Recipient, MaxRecipients)}
                  \cup {UndecodableBinary} :
          LET info == MessageInfo(sender, <<>>)
              msg == Receive("user", amount, bin)
          IN  /\ call' = [info |-> info, msg |-> msg]
              /\ result' = execute(info, msg)

Next == ExecuteDistributeNative \/ ExecuteReceive

Spec == Init /\ [][Next]_vars

----------------------------------------------------------------------------
(* Vocabulary of the properties: the request of the call and its outcome *)

IsNative == call.msg.variant = "DistributeNative"

\* A Receive call whose hook payload is a DistributeCw20 message.
IsCw20 ==
    /\ call.msg.variant = "Receive"
    /\ call.msg.cw20_msg.msg.encoded.variant = "DistributeCw20"

IsDistribution == IsNative \/ IsCw20

HookMsg == call.msg.cw20_msg.msg.encoded

ReqRecipients == IF IsNative THEN call.msg.recipients ELSE HookMsg.recipients

\* The sum of the amounts as a mathematical integer.
RECURSIVE SumOfFirst(_, _)
SumOfFirst(rs, n) == IF n = 0 THEN 0 ELSE rs[n].amount + SumOfFirst(rs, n - 1)

MathSum(rs) == SumOfFirst(rs, Len(rs))

\* Amount of the last attached coin of the declared denom, zero without one.
RECURSIVE LastAmongFirst(_, _, _)
LastAmongFirst(funds, denom, n) ==
    IF n = 0 THEN 0
    ELSE IF funds[n].denom = denom THEN funds[n].amount
    ELSE LastAmongFirst(funds, denom, n - 1)

LastCoinAmount(funds, denom) == LastAmongFirst(funds, denom, Len(funds))

Deposited ==
    IF IsNative THEN LastCoinAmount(call.info.funds, call.msg.denom)
    ELSE call.msg.cw20_msg.amount

\* The declared asset is the asset supplied.
AssetOk ==
    IF IsNative
    THEN \A i \in 1..Len(call.info.funds) :
            call.info.funds[i].denom = call.msg.denom
    ELSE call.info.sender = HookMsg.asset_token

StructDup(rs) == \E j \in 2..Len(rs) : \E i \in 1..(j - 1) : rs[i] = rs[j]

AddrDup(rs) ==
    \E j \in 2..Len(rs) : \E i \in 1..(j - 1) : rs[i].recipient = rs[j].recipient

AllValid(rs) == \A i \in 1..Len(rs) : rs[i].recipient \in ValidAddrs

FirstInvalid(rs) ==
    rs[CHOOSE i \in 1..Len(rs) :
          /\ rs[i].recipient \notin ValidAddrs
          /\ \A j \in 1..(i - 1) : rs[j].recipient \in ValidAddrs].recipient

Succeeded == result.tag = "Ok"

Failed == result.tag \in {"Err", "Panic"}

\* The instructions the call hands to the host.
Emitted == IF "messages" \in DOMAIN result THEN result.messages ELSE <<>>

\* The (address, amount) an instruction pays.
Paid(m) ==
    IF m.kind = "BankSend"
    THEN <<m.to_address, m.amount[1].amount>>
    ELSE <<m.msg.encoded.recipient, m.msg.encoded.amount>>

RECURSIVE SumPaid(_)
SumPaid(ms) == IF ms = <<>> THEN 0 ELSE Paid(ms[1])[2] + SumPaid(Tail(ms))

----------------------------------------------------------------------------
(* Properties *)

\* C1: every successful distribution, native or cw20, emits as many
\* instructions as the request has recipients, and their amounts add up to
\* the deposited amount (the attached coin's amount, resp. the hook's amount).
C1_SuccessConservesDeposit ==
    (IsDistribution /\ Succeeded) =>
        /\ Len(Emitted) = Len(ReqRecipients)
        /\ SumPaid(Emitted) = Deposited

C1_Witness ==
    /\ IsNative /\ Succeeded
    /\ Len(ReqRecipients) >= 2
    /\ Deposited > 0

\* C2 as stated: every request whose recipients' sum differs from the
\* deposited amount fails with MismatchedAssetAmount.
C2_Original ==
    (IsDistribution /\ MathSum(ReqRecipients) # Deposited) =>
        result = Err(MismatchedAssetAmount)

\* C2 amended: a request whose recipients' sum differs from the deposited
\* amount emits no instructions; it fails with MismatchedAssetAmount when the
\* declared asset is the one supplied and the sum fits a Uint128.
C2_SumMismatchFails ==
    (IsDistribution /\ MathSum(ReqRecipients) # Deposited) =>
        /\ Failed /\ Emitted = <<>>
        /\ (AssetOk /\ MathSum(ReqRecipients) <= MaxUint) =>
              result = Err(MismatchedAssetAmount)

C2_Witness ==
    /\ IsNative /\ AssetOk
    /\ Len(call.info.funds) > 0
    /\ MathSum(ReqRecipients) < Deposited
    /\ result = Err(MismatchedAssetAmount)

\* C3: a distribution that emits instructions has no two recipient entries
\* with the same address.
C3_NoAddressPaidTwice ==
    (IsDistribution /\ Succeeded /\ Emitted # <<>>) => ~AddrDup(ReqRecipients)

\* C4 as stated: every request with two structurally identical recipient
\* entries fails with DuplicateRecipient.
C4_Original ==
    (IsDistribution /\ StructDup(ReqRecipients)) =>
        result = Err(DuplicateRecipient)

\* C4 amended: a request with two structurally identical recipient entries,
\* adjacent or not, fails; it fails with DuplicateRecipient when the declared
\* asset is the one supplied and the recipients' sum equals the deposit.
C4_DuplicateEntriesFail ==
    (IsDistribution /\ StructDup(ReqRecipients)) =>
        /\ Failed /\ Emitted = <<>>
        /\ (AssetOk /\ MathSum(ReqRecipients) = Deposited) =>
              result = Err(DuplicateRecipient)

C4_Witness ==
    /\ IsDistribution
    /\ Len(ReqRecipients) = 3
    /\ ReqRecipients[1] = ReqRecipients[3]
    /\ ReqRecipients[1] # ReqRecipients[2]
    /\ result = Err(DuplicateRecipient)

\* C5: a native call with an attached coin of another denom than the declared
\* one, and a decodable cw20 hook whose sender is not the declared
\* asset_token, fail with MismatchedAssetType whatever the recipients are.
C5_AssetMismatchFails ==
    /\ (IsNative /\ \E i \in 1..Len(call.info.funds) :
                        call.info.funds[i].denom # call.msg.denom) =>
          result = Err(MismatchedAssetType)
    /\ (IsCw20 /\ call.info.sender # HookMsg.asset_token) =>
          result = Err(MismatchedAssetType)

C5_Witness ==
    /\ IsNative
    /\ \E i, j \in 1..Len(call.info.funds) :
          /\ call.info.funds[i].denom = call.msg.denom
          /\ call.info.funds[j].denom # call.msg.denom
    /\ StructDup(ReqRecipients)
    /\ ~AllValid(ReqRecipients)
    /\ MathSum(ReqRecipients) # Deposited
    /\ result = Err(MismatchedAssetType)

\* C6: when a request passes the asset, sum and duplicate checks and the
\* validator rejects one of its addresses, at any position, the call fails
\* with the validator's error and emits nothing; no failing call carries
\* instructions.
C6_AllOrNothing ==
    /\ (/\ IsDistribution /\ AssetOk
        /\ MathSum(ReqRecipients) = Deposited
        /\ ~StructDup(ReqRecipients)
        /\ ~AllValid(ReqRecipients)) =>
          /\ result = Err(Std(addr_validate(FirstInvalid(ReqRecipients)).error))
          /\ Emitted = <<>>
    /\ Failed => Emitted = <<>>
    /\ (IsDistribution /\ Succeeded) => AllValid(ReqRecipients)

C6_Witness ==
    /\ IsNative
    /\ Len(ReqRecipients) >= 2
    /\ ReqRecipients[1].recipient \in ValidAddrs
    /\ ReqRecipients[2].recipient \notin ValidAddrs
    /\ result.tag = "Err" /\ result.error.kind = "Std"

\* C7: when the mathematical sum of the recipients' amounts exceeds the
\* largest Uint128, the call fails and emits nothing, also when the sum
\* modulo 2^128 equals the deposited amount.
C7_OverflowFails ==
    (IsDistribution /\ MathSum(ReqRecipients) > MaxUint) =>
        Failed /\ Emitted = <<>>

C7_Witness ==
    /\ IsDistribution /\ AssetOk
    /\ MathSum(ReqRecipients) > MaxUint
    /\ MathSum(ReqRecipients) % (MaxUint + 1) = Deposited
    /\ ~StructDup(ReqRecipients)
    /\ AllValid(ReqRecipients)
    /\ Failed

\* C8: on success the i-th instruction pays recipients[i].amount to
\* recipients[i].address: a bank send of one coin of the declared denom on
\* the native path, an execute of the declared asset_token with no funds
\* carrying a cw20 Transfer on the cw20 path.
C8_OrderPreserved ==
    (IsDistribution /\ Succeeded) =>
        /\ Len(Emitted) = Len(ReqRecipients)
        /\ \A i \in 1..Len(ReqRecipients) :
              Emitted[i] =
                IF IsNative
                THEN [kind |-> "BankSend",
                      to_address |-> ReqRecipients[i].recipient,
                      amount |-> <<[denom |-> call.msg.denom,
                                    amount |-> ReqRecipients[i].amount]>>]
                ELSE [kind |-> "WasmExecute",
                      contract_addr |-> HookMsg.asset_token,
                      funds |-> <<>>,
                      msg |-> [encoded |->
                                 [variant |-> "Transfer",
                                  recipient |-> ReqRecipients[i].recipient,
                                  amount |-> ReqRecipients[i].amount]]]

C8_Witness ==
    /\ IsNative /\ Succeeded
    /\ Len(ReqRecipients) >= 2
    /\ ReqRecipients[1] # ReqRecipients[2]

\* C9: on the native path the amount compared with the recipients' sum is that
\* of the last attached coin of the declared denom, zero without attached
\* coins; a call without funds succeeds exactly when the recipients' amounts
\* sum to zero, no two entries are identical and every address is valid, and
\* with no recipients it returns an empty instruction sequence.
C9_NativeDeposit ==
    IsNative =>
        /\ (AssetOk /\ MathSum(ReqRecipients) <= MaxUint) =>
              (result = Err(MismatchedAssetAmount)
                 <=> MathSum(ReqRecipients) # Deposited)
        /\ call.info.funds = <<>> =>
              (Succeeded <=> /\ MathSum(ReqRecipients) = 0
                             /\ ~StructDup(ReqRecipients)
                             /\ AllValid(ReqRecipients))
        /\ (call.info.funds = <<>> /\ ReqRecipients = <<>>) => result = Ok(<<>>)

C9_Witness ==
    /\ IsNative /\ Succeeded
    /\ Len(call.info.funds) = 2
    /\ call.info.funds[1].amount # call.info.funds[2].amount
    /\ call.info.funds[1].amount > 0
    /\ MathSum(ReqRecipients) = call.info.funds[2].amount

\* The two paths agree: both succeed paying the same (address, amount)
\* sequence, or both fail the same way.
SameOutcome(a, b) ==
    /\ a.tag = b.tag
    /\ a.tag = "Err" => a.error = b.error
    /\ a.tag = "Ok" =>
          /\ Len(a.messages) = Len(b.messages)
          /\ \A i \in 1..Len(a.messages) : Paid(a.messages[i]) = Paid(b.messages[i])

====
